---- MODULE Spec2Model ----
(***************************************************************************)
(* Model of the batcher's ProposalsManager                                 *)
(* (crates/batcher/src/proposals_manager.rs): the single active-proposal   *)
(* slot behind a tokio Mutex, the spawned build_proposal_loop task with    *)
(* its select! between feed_more_mempool_txs and the block builder's       *)
(* future, and the bounded mpsc relay channel between them.                *)
(*                                                                         *)
(* The mempool client and the block builder are external: the mempool      *)
(* answers a get_txs request with a batch of at most the requested size or *)
(* with an error; the builder reads its input stream, may close it, and    *)
(* becomes ready with a boolean.  select! has no priority between its      *)
(* branches, so whenever both branches can act either may be taken.        *)
(***************************************************************************)
EXTENDS Integers, Sequences, FiniteSets, TLC

\* ---------------------------------------------------------------- bounds
MaxId == 2                      \* proposal ids are 1..MaxId
MaxTasks == 2                   \* generate_block_proposal calls per run
MaxMempool == 4                 \* transactions the mempool can hand out
MaxTxsPerMempoolRequest == 2    \* config.max_txs_per_mempool_request

ProposalIds == 1..MaxId
MempoolErrors == {"ClientError", "MempoolError"}

\* ---------------------------------------------------------------- state
VARIABLES
    active_proposal,         \* Arc<Mutex<Option<ProposalId>>>: <<>> or <<id>>
    lock,                    \* holder of the Mutex: <<>>, <<0>> (manager), <<t>> (task t)
    lock_waiters,            \* those suspended in lock().await, in arrival order
    active_proposal_handle,  \* Option<JoinHandle>: <<>> or <<t>>
    tasks,                   \* the spawned build_proposal_loop tasks, in spawn order
    caller_pc,               \* where the &mut self caller is
    caller_arg,              \* proposal_id of the call in progress, or awaited task
    call_result,             \* what the last finished call returned
    mempool_next,            \* transactions handed out by the mempool so far
    factory_calls,           \* create_block_builder invocations
    channels_created         \* mpsc::channel invocations

vars == <<active_proposal, lock, lock_waiters, active_proposal_handle, tasks, caller_pc,
          caller_arg, call_result, mempool_next, factory_calls, channels_created>>

None == <<>>
Some(x) == <<x>>

\* Values returned by the manager's operations and by the task.
Result(kind, cur, new, val, err) ==
    [kind |-> kind, cur |-> cur, new |-> new, val |-> val, err |-> err]
Pending == Result("Pending", 0, 0, FALSE, "")
OkUnit == Result("Ok(())", 0, 0, FALSE, "")
OkBool(b) == Result("Ok(bool)", 0, 0, b, "")
AlreadyGeneratingProposal(cur, new) ==
    Result("AlreadyGeneratingProposal", cur, new, FALSE, "")
InternalError == Result("InternalError", 0, 0, FALSE, "")
MempoolError(e) == Result("MempoolError", 0, 0, FALSE, e)
NoHandle == Result("None", 0, 0, FALSE, "")

\* What the mempool client has answered to a get_txs request.
NoReply == [kind |-> "None", txs |-> <<>>, err |-> ""]
TxsReply(txs) == [kind |-> "Ok", txs |-> txs, err |-> ""]
ErrReply(e) == [kind |-> "Err", txs |-> <<>>, err |-> e]

Min(a, b) == IF a < b THEN a ELSE b
TaskIds == 1..Len(tasks)

\* A freshly spawned build_proposal_loop with its relay channel and builder.
NewTask(id) ==
    [claim |-> id,              \* the id claimed for this task; 0 once it cleared the slot
     pc |-> "select",           \* select | finishing | return | done
     feed |-> "new",            \* new | get_txs | send | dropped
     reply |-> NoReply,         \* the mempool's answer, not yet seen by the feed step
     batch |-> <<>>,            \* mempool_txs not yet sent
     chan |-> <<>>,             \* relay channel buffer
     capacity |-> MaxTxsPerMempoolRequest,
     rx_closed |-> FALSE,       \* builder closed or dropped its input stream
     sender_dropped |-> FALSE,  \* mempool_tx_sender dropped
     builder |-> "running",     \* running | ready | done | abandoned (not polled again)
     bval |-> FALSE,
     res |-> Pending,
     pulled |-> <<>>,           \* every transaction get_txs returned, in order
     read |-> <<>>]             \* every transaction the builder read, in order

\* What is left of a task that has ended and whose output nobody can read any
\* more: its locals are dropped, and so is its result once the JoinHandle is
\* gone or has been awaited.
Ended ==
    [NewTask(0) EXCEPT !.pc = "done", !.feed = "dropped", !.rx_closed = TRUE,
                       !.sender_dropped = TRUE, !.builder = "dropped"]

\* The JoinHandle of task t is still held: in active_proposal_handle, or by an
\* await_active_proposal in progress.
Attached(t) ==
    \/ active_proposal_handle = Some(t)
    \/ caller_pc = "join" /\ caller_arg = t

\* tokio's Mutex is fair: lock().await takes the lock at once when it is free
\* and otherwise queues behind the earlier waiters; dropping the guard hands
\* the lock to the first waiter.
LockAcquire(who) ==
    IF lock = None
    THEN lock' = Some(who) /\ UNCHANGED lock_waiters
    ELSE lock_waiters' = Append(lock_waiters, who) /\ UNCHANGED lock
LockRelease ==
    IF lock_waiters = <<>>
    THEN lock' = None /\ UNCHANGED lock_waiters
    ELSE lock' = Some(Head(lock_waiters)) /\ lock_waiters' = Tail(lock_waiters)

Init ==
    /\ active_proposal = None
    /\ lock = None
    /\ lock_waiters = <<>>
    /\ active_proposal_handle = None
    /\ tasks = <<>>
    /\ caller_pc = "idle"
    /\ caller_arg = 0
    /\ call_result = Pending
    /\ mempool_next = 0
    /\ factory_calls = 0
    /\ channels_created = 0

\* ------------------------------------------------------- manager (caller)
\* generate_block_proposal is entered and reaches set_active_proposal's
\* self.active_proposal.lock().await.
generate_block_proposal(proposal_id) ==
    /\ caller_pc = "idle"
    /\ Len(tasks) < MaxTasks
    /\ caller_pc' = "lock"
    /\ caller_arg' = proposal_id
    /\ call_result' = Pending
    /\ LockAcquire(0)
    /\ UNCHANGED <<active_proposal, active_proposal_handle, tasks,
                   mempool_next, factory_calls, channels_created>>

\* Variant: the slot is set without looking at what it holds.
set_active_proposal_unchecked ==
    /\ caller_pc = "lock"
    /\ lock = Some(0)
    /\ LockRelease
    /\ active_proposal' = Some(caller_arg)
    /\ caller_pc' = "spawn"
    /\ UNCHANGED <<call_result, caller_arg, active_proposal_handle, tasks,
                   mempool_next, factory_calls, channels_created>>

\* Variant: the relay channel is created before the claim is checked.
set_active_proposal_channel_first ==
    /\ caller_pc = "lock"
    /\ lock = Some(0)
    /\ LockRelease
    /\ IF active_proposal # None
       THEN /\ call_result' = AlreadyGeneratingProposal(active_proposal[1], caller_arg)
            /\ caller_pc' = "idle"
            /\ caller_arg' = 0
            /\ channels_created' = channels_created + 1
            /\ UNCHANGED active_proposal
       ELSE /\ active_proposal' = Some(caller_arg)
            /\ caller_pc' = "spawn"
            /\ UNCHANGED <<call_result, caller_arg, channels_created>>
    /\ UNCHANGED <<active_proposal_handle, tasks, mempool_next, factory_calls>>

\* Variant: an occupied slot is reported as InternalError.
set_active_proposal_internal_error ==
    /\ caller_pc = "lock"
    /\ lock = Some(0)
    /\ LockRelease
    /\ IF active_proposal # None
       THEN /\ call_result' = InternalError
            /\ caller_pc' = "idle"
            /\ caller_arg' = 0
            /\ UNCHANGED active_proposal
       ELSE /\ active_proposal' = Some(caller_arg)
            /\ caller_pc' = "spawn"
            /\ UNCHANGED <<call_result, caller_arg>>
    /\ UNCHANGED <<active_proposal_handle, tasks, mempool_next, factory_calls,
                   channels_created>>

\* Variant: a claim with a higher id than the one in the slot is accepted.
set_active_proposal_newer_wins ==
    /\ caller_pc = "lock"
    /\ lock = Some(0)
    /\ LockRelease
    /\ IF active_proposal # None /\ active_proposal[1] >= caller_arg
       THEN /\ call_result' = AlreadyGeneratingProposal(active_proposal[1], caller_arg)
            /\ caller_pc' = "idle"
            /\ caller_arg' = 0
            /\ UNCHANGED active_proposal
       ELSE /\ active_proposal' = Some(caller_arg)
            /\ caller_pc' = "spawn"
            /\ UNCHANGED <<call_result, caller_arg>>
    /\ UNCHANGED <<active_proposal_handle, tasks, mempool_next, factory_calls,
                   channels_created>>

\* Variant: a claim for the id that is already in the slot is accepted again.
set_active_proposal_same_id ==
    /\ caller_pc = "lock"
    /\ lock = Some(0)
    /\ LockRelease
    /\ IF active_proposal # None /\ active_proposal # Some(caller_arg)
       THEN /\ call_result' = AlreadyGeneratingProposal(active_proposal[1], caller_arg)
            /\ caller_pc' = "idle"
            /\ caller_arg' = 0
            /\ UNCHANGED active_proposal
       ELSE /\ active_proposal' = Some(caller_arg)
            /\ caller_pc' = "spawn"
            /\ UNCHANGED <<call_result, caller_arg>>
    /\ UNCHANGED <<active_proposal_handle, tasks, mempool_next, factory_calls,
                   channels_created>>

\* Variant: a new claim cancels the proposal in the slot and takes its place.
set_active_proposal_preempt ==
    /\ caller_pc = "lock"
    /\ lock = Some(0)
    /\ LockRelease
    /\ active_proposal' = Some(caller_arg)
    /\ caller_pc' = "spawn"
    /\ UNCHANGED <<call_result, caller_arg>>
    /\ UNCHANGED <<active_proposal_handle, tasks, mempool_next, factory_calls,
                   channels_created>>

\* The check-and-set under the lock; a rejection returns from
\* generate_block_proposal through `?`.
set_active_proposal ==
    /\ caller_pc = "lock"
    /\ lock = Some(0)
    /\ LockRelease
    /\ IF active_proposal # None
       THEN /\ call_result' = AlreadyGeneratingProposal(active_proposal[1], caller_arg)
            /\ caller_pc' = "idle"
            /\ caller_arg' = 0
            /\ UNCHANGED active_proposal
       ELSE /\ active_proposal' = Some(caller_arg)
            /\ caller_pc' = "spawn"
            /\ UNCHANGED <<call_result, caller_arg>>
    /\ UNCHANGED <<active_proposal_handle, tasks, mempool_next, factory_calls,
                   channels_created>>

\* Variant: the call awaits the task it has just spawned.
spawn_build_proposal_loop_awaited ==
    /\ caller_pc = "spawn"
    /\ channels_created' = channels_created + 1
    /\ factory_calls' = factory_calls + 1
    /\ tasks' = Append([i \in TaskIds |-> [tasks[i] EXCEPT !.res = Pending]],
                        NewTask(caller_arg))
    /\ active_proposal_handle' = None
    /\ caller_pc' = "join"
    /\ caller_arg' = Len(tasks) + 1
    /\ UNCHANGED <<active_proposal, lock, lock_waiters, mempool_next, call_result>>

\* Variant: the factory fails; the call returns an error, nothing is spawned
\* and the claim is left in the slot.
spawn_build_proposal_loop_factory_fails ==
    /\ caller_pc = "spawn"
    /\ channels_created' = channels_created + 1
    /\ factory_calls' = factory_calls + 1
    /\ call_result' = InternalError
    /\ caller_pc' = "idle"
    /\ caller_arg' = 0
    /\ UNCHANGED <<active_proposal, active_proposal_handle, tasks, lock,
                   lock_waiters, mempool_next>>

\* Channel creation, create_block_builder, tokio::spawn, Ok(()).
spawn_build_proposal_loop ==
    /\ caller_pc = "spawn"
    /\ channels_created' = channels_created + 1
    /\ factory_calls' = factory_calls + 1
    /\ tasks' = Append([i \in TaskIds |-> [tasks[i] EXCEPT !.res = Pending]],
                        NewTask(caller_arg))
    /\ active_proposal_handle' = Some(Len(tasks) + 1)
    /\ call_result' = OkUnit
    /\ caller_pc' = "idle"
    /\ caller_arg' = 0
    /\ UNCHANGED <<active_proposal, lock, lock_waiters, mempool_next>>

\* await_active_proposal: takes the handle; None when there is none.
await_active_proposal ==
    /\ caller_pc = "idle"
    /\ active_proposal_handle' = None
    /\ IF active_proposal_handle = None
       THEN /\ call_result' = NoHandle
            /\ UNCHANGED <<caller_pc, caller_arg>>
       ELSE /\ call_result' = Pending
            /\ caller_pc' = "join"
            /\ caller_arg' = active_proposal_handle[1]
    /\ UNCHANGED <<active_proposal, lock, lock_waiters, tasks, mempool_next,
                   factory_calls, channels_created>>

\* handle.await completes once the task has ended.
await_active_proposal_join ==
    /\ caller_pc = "join"
    /\ tasks[caller_arg].pc = "done"
    /\ call_result' = tasks[caller_arg].res
    /\ tasks' = [tasks EXCEPT ![caller_arg] = Ended]
    /\ caller_pc' = "idle"
    /\ caller_arg' = 0
    /\ UNCHANGED <<active_proposal, lock, lock_waiters, active_proposal_handle,
                   mempool_next, factory_calls, channels_created>>

\* ------------------------------------------------- build_proposal_loop
TaskFrame == UNCHANGED <<active_proposal, active_proposal_handle, caller_pc,
                         caller_arg, call_result, factory_calls, channels_created>>
NoLock == UNCHANGED <<lock, lock_waiters>>

\* A new feed_more_mempool_txs future issues mempool_client.get_txs(n).
get_txs_request(t) ==
    /\ tasks[t].pc = "select"
    /\ tasks[t].feed = "new"
    /\ tasks' = [tasks EXCEPT ![t].feed = "get_txs"]
    /\ UNCHANGED mempool_next
    /\ NoLock
    /\ TaskFrame

\* Variant: an empty batch is taken for the end of the mempool and the sender
\* is dropped, which closes the builder's input.
get_txs_response_close_on_empty(t) ==
    /\ tasks[t].pc = "select"
    /\ tasks[t].feed = "get_txs"
    /\ tasks[t].reply.kind = "Ok"
    /\ tasks' = [tasks EXCEPT ![t].batch = tasks[t].reply.txs,
                              ![t].pulled = @ \o tasks[t].reply.txs,
                              ![t].reply = NoReply,
                              ![t].sender_dropped = (tasks[t].reply.txs = <<>>),
                              ![t].feed = IF tasks[t].reply.txs = <<>> THEN "new" ELSE "send"]
    /\ UNCHANGED mempool_next
    /\ NoLock
    /\ TaskFrame

\* get_txs(n).await returns Ok(mempool_txs); an empty batch ends the feed step
\* at once and the loop continues with a new one.
get_txs_response(t) ==
    /\ tasks[t].pc = "select"
    /\ tasks[t].feed = "get_txs"
    /\ tasks[t].reply.kind = "Ok"
    /\ tasks' = [tasks EXCEPT ![t].batch = tasks[t].reply.txs,
                              ![t].pulled = @ \o tasks[t].reply.txs,
                              ![t].reply = NoReply,
                              ![t].feed = IF tasks[t].reply.txs = <<>> THEN "new" ELSE "send"]
    /\ UNCHANGED mempool_next
    /\ NoLock
    /\ TaskFrame

\* Variant: the feed error leaves build_proposal_loop through `?`, past the
\* call of active_proposal_finished.
get_txs_error_early_return(t) ==
    /\ tasks[t].pc = "select"
    /\ tasks[t].feed = "get_txs"
    /\ tasks[t].reply.kind = "Err"
    /\ tasks' = [tasks EXCEPT ![t].res = MempoolError(tasks[t].reply.err),
                              ![t].builder = "abandoned",
                              ![t].bval = FALSE,
                              ![t].feed = "dropped",
                              ![t].reply = NoReply,
                              ![t].batch = <<>>,
                              ![t].pc = "return"]
    /\ UNCHANGED mempool_next
    /\ NoLock
    /\ TaskFrame

\* Variant: a failed get_txs is logged and the loop continues.
get_txs_error_continue(t) ==
    /\ tasks[t].pc = "select"
    /\ tasks[t].feed = "get_txs"
    /\ tasks[t].reply.kind = "Err"
    /\ tasks' = [tasks EXCEPT ![t].feed = "new", ![t].reply = NoReply]
    /\ UNCHANGED mempool_next
    /\ NoLock
    /\ TaskFrame

\* get_txs(n).await returns Err: `?` converts it to MempoolError and returns,
\* the loop breaks with it.
get_txs_error(t) ==
    /\ tasks[t].pc = "select"
    /\ tasks[t].feed = "get_txs"
    /\ tasks[t].reply.kind = "Err"
    /\ tasks' = [tasks EXCEPT ![t].res = MempoolError(tasks[t].reply.err),
                              ![t].builder = "abandoned",
                              ![t].bval = FALSE,
                              ![t].feed = "dropped",
                              ![t].reply = NoReply,
                              ![t].batch = <<>>,
                              ![t].pc = "finishing"]
    /\ LockAcquire(t)
    /\ UNCHANGED mempool_next
    /\ TaskFrame

\* Variant: the batch is sent from its last transaction.
send_tx_last_first(t) ==
    /\ tasks[t].pc = "select"
    /\ tasks[t].feed = "send"
    /\ tasks[t].batch # <<>>
    /\ ~tasks[t].rx_closed
    /\ Len(tasks[t].chan) < tasks[t].capacity
    /\ tasks' = [tasks EXCEPT ![t].chan = Append(@, tasks[t].batch[Len(tasks[t].batch)]),
                              ![t].batch = SubSeq(@, 1, Len(@) - 1),
                              ![t].feed = IF Len(tasks[t].batch) = 1 THEN "new" ELSE "send"]
    /\ UNCHANGED mempool_next
    /\ NoLock
    /\ TaskFrame

\* Variant: the relay channel is unbounded.
send_tx_unbounded(t) ==
    /\ tasks[t].pc = "select"
    /\ tasks[t].feed = "send"
    /\ tasks[t].batch # <<>>
    /\ ~tasks[t].rx_closed
    /\ tasks' = [tasks EXCEPT ![t].chan = Append(@, Head(tasks[t].batch)),
                              ![t].batch = Tail(@),
                              ![t].feed = IF Len(tasks[t].batch) = 1 THEN "new" ELSE "send"]
    /\ UNCHANGED mempool_next
    /\ NoLock
    /\ TaskFrame

\* mempool_tx_sender.send(tx).await succeeds when the channel is open and
\* has room; after the last transaction the feed step ends and the loop
\* continues.
send_tx(t) ==
    /\ tasks[t].pc = "select"
    /\ tasks[t].feed = "send"
    /\ tasks[t].batch # <<>>
    /\ ~tasks[t].rx_closed
    /\ Len(tasks[t].chan) < tasks[t].capacity
    /\ tasks' = [tasks EXCEPT ![t].chan = Append(@, Head(tasks[t].batch)),
                              ![t].batch = Tail(@),
                              ![t].feed = IF Len(tasks[t].batch) = 1 THEN "new" ELSE "send"]
    /\ UNCHANGED mempool_next
    /\ NoLock
    /\ TaskFrame

\* Variant: a failed send is logged, the batch is given up and the loop continues.
send_tx_closed_continue(t) ==
    /\ tasks[t].pc = "select"
    /\ tasks[t].feed = "send"
    /\ tasks[t].batch # <<>>
    /\ tasks[t].rx_closed
    /\ tasks' = [tasks EXCEPT ![t].feed = "new", ![t].batch = <<>>]
    /\ UNCHANGED mempool_next
    /\ NoLock
    /\ TaskFrame

\* send fails on a closed channel: InternalError, the loop breaks with it.
send_tx_closed(t) ==
    /\ tasks[t].pc = "select"
    /\ tasks[t].feed = "send"
    /\ tasks[t].batch # <<>>
    /\ tasks[t].rx_closed
    /\ tasks' = [tasks EXCEPT ![t].res = InternalError,
                              ![t].builder = "abandoned",
                              ![t].bval = FALSE,
                              ![t].feed = "dropped",
                              ![t].reply = NoReply,
                              ![t].batch = <<>>,
                              ![t].pc = "finishing"]
    /\ LockAcquire(t)
    /\ UNCHANGED mempool_next
    /\ TaskFrame

\* Variant: select! is biased towards the feed branch: the builder branch is
\* taken only when the feed step cannot make progress.
builder_done_feed_first(t) ==
    /\ tasks[t].pc = "select"
    /\ tasks[t].builder = "ready"
    /\ \/ tasks[t].feed = "get_txs" /\ tasks[t].reply = NoReply
       \/ /\ tasks[t].feed = "send"
          /\ ~tasks[t].rx_closed
          /\ Len(tasks[t].chan) = tasks[t].capacity
    /\ tasks' = [tasks EXCEPT ![t].res = OkBool(tasks[t].bval),
                              ![t].bval = FALSE,
                              ![t].builder = "done",
                              ![t].feed = "dropped",
                              ![t].reply = NoReply,
                              ![t].batch = <<>>,
                              ![t].pc = "finishing"]
    /\ LockAcquire(t)
    /\ UNCHANGED mempool_next
    /\ TaskFrame

\* Variant: the builder's result is taken only between two feed steps.
builder_done_between_feeds(t) ==
    /\ tasks[t].pc = "select"
    /\ tasks[t].builder = "ready"
    /\ tasks[t].feed = "new"
    /\ tasks' = [tasks EXCEPT ![t].res = OkBool(tasks[t].bval),
                              ![t].bval = FALSE,
                              ![t].builder = "done",
                              ![t].feed = "dropped",
                              ![t].reply = NoReply,
                              ![t].batch = <<>>,
                              ![t].pc = "finishing"]
    /\ LockAcquire(t)
    /\ UNCHANGED mempool_next
    /\ TaskFrame

\* Variant: on completion of the builder the batch still held by the feed step
\* is flushed into the relay channel before the loop is left.
builder_done_flush(t) ==
    /\ tasks[t].pc = "select"
    /\ tasks[t].builder = "ready"
    /\ tasks' = [tasks EXCEPT ![t].res = OkBool(tasks[t].bval),
                              ![t].bval = FALSE,
                              ![t].builder = "done",
                              ![t].feed = "dropped",
                              ![t].reply = NoReply,
                              ![t].chan = tasks[t].chan \o tasks[t].batch,
                              ![t].batch = <<>>,
                              ![t].pc = "finishing"]
    /\ LockAcquire(t)
    /\ UNCHANGED mempool_next
    /\ TaskFrame

\* The builder branch of select!: the building future is ready, the loop
\* breaks with Ok(builder_done) and the feed future is dropped.
builder_done(t) ==
    /\ tasks[t].pc = "select"
    /\ tasks[t].builder = "ready"
    /\ tasks' = [tasks EXCEPT ![t].res = OkBool(tasks[t].bval),
                              ![t].bval = FALSE,
                              ![t].builder = "done",
                              ![t].feed = "dropped",
                              ![t].reply = NoReply,
                              ![t].batch = <<>>,
                              ![t].pc = "finishing"]
    /\ LockAcquire(t)
    /\ UNCHANGED mempool_next
    /\ TaskFrame

\* Variant: the slot is cleared only when the loop ended with Ok.
active_proposal_finished_only_ok(t) ==
    /\ tasks[t].pc = "finishing"
    /\ lock = Some(t)
    /\ active_proposal' = IF tasks[t].res.kind = "Ok(bool)" THEN None ELSE active_proposal
    /\ LockRelease
    /\ tasks' = [tasks EXCEPT ![t] = [Ended EXCEPT !.pc = "return",
                                                   !.res = IF Attached(t)
                                                           THEN tasks[t].res
                                                           ELSE Pending]]
    /\ UNCHANGED <<active_proposal_handle, caller_pc, caller_arg, call_result,
                   mempool_next, factory_calls, channels_created>>

\* Variant: the guard taken for the clear is kept by the task instead of being
\* dropped at the end of active_proposal_finished.
active_proposal_finished_keeps_guard(t) ==
    /\ tasks[t].pc = "finishing"
    /\ lock = Some(t)
    /\ active_proposal' = None
    /\ UNCHANGED <<lock, lock_waiters>>
    /\ tasks' = [tasks EXCEPT ![t] = [Ended EXCEPT !.pc = "return",
                                                   !.res = IF Attached(t)
                                                           THEN tasks[t].res
                                                           ELSE Pending]]
    /\ UNCHANGED <<active_proposal_handle, caller_pc, caller_arg, call_result,
                   mempool_next, factory_calls, channels_created>>

\* active_proposal_finished once its lock().await has the lock:
\* *proposal_id = None; the guard is dropped.  What remains is to return
\* `res`; the loop's locals (sender, builder, channel) are touched by nothing
\* after this point and are dropped at the return, so the model forgets their
\* contents here and keeps only the task's result, and that only while a
\* JoinHandle can still read it.
active_proposal_finished(t) ==
    /\ tasks[t].pc = "finishing"
    /\ lock = Some(t)
    /\ active_proposal' = None
    /\ LockRelease
    /\ tasks' = [tasks EXCEPT ![t] = [Ended EXCEPT !.pc = "return",
                                                   !.res = IF Attached(t)
                                                           THEN tasks[t].res
                                                           ELSE Pending]]
    /\ UNCHANGED <<active_proposal_handle, caller_pc, caller_arg, call_result,
                   mempool_next, factory_calls, channels_created>>

\* `res` is returned and the task ends; the result stays readable only
\* through a JoinHandle that is still held.
task_end(t) ==
    /\ tasks[t].pc = "return"
    /\ tasks' = [tasks EXCEPT ![t] = IF Attached(t)
                                     THEN [Ended EXCEPT !.res = tasks[t].res]
                                     ELSE Ended]
    /\ UNCHANGED mempool_next
    /\ NoLock
    /\ TaskFrame

\* ------------------------------------------------------- mempool client
\* The mempool answers the request in flight with its next k <= n transactions.
mempool_reply(t, k) ==
    /\ tasks[t].pc = "select"
    /\ tasks[t].feed = "get_txs"
    /\ tasks[t].reply = NoReply
    /\ k <= Min(MaxTxsPerMempoolRequest, MaxMempool - mempool_next)
    /\ tasks' = [tasks EXCEPT ![t].reply = TxsReply([i \in 1..k |-> mempool_next + i])]
    /\ mempool_next' = mempool_next + k
    /\ NoLock
    /\ TaskFrame

\* The request in flight fails with a MempoolClientError.
mempool_fail(t, e) ==
    /\ tasks[t].pc = "select"
    /\ tasks[t].feed = "get_txs"
    /\ tasks[t].reply = NoReply
    /\ tasks' = [tasks EXCEPT ![t].reply = ErrReply(e)]
    /\ UNCHANGED mempool_next
    /\ NoLock
    /\ TaskFrame

\* ------------------------------------------------------- block builder
\* The builder reads the next transaction of its input stream.
builder_read(t) ==
    /\ tasks[t].pc = "select"
    /\ tasks[t].builder = "running"
    /\ ~tasks[t].rx_closed
    /\ tasks[t].chan # <<>>
    /\ tasks' = [tasks EXCEPT ![t].read = Append(@, Head(tasks[t].chan)),
                              ![t].chan = Tail(@)]
    /\ UNCHANGED mempool_next
    /\ NoLock
    /\ TaskFrame

\* The builder closes (or drops) its input stream while still building.
builder_close_stream(t) ==
    /\ tasks[t].pc = "select"
    /\ tasks[t].builder = "running"
    /\ ~tasks[t].rx_closed
    /\ tasks' = [tasks EXCEPT ![t].rx_closed = TRUE]
    /\ UNCHANGED mempool_next
    /\ NoLock
    /\ TaskFrame

\* build_block(deadline) becomes ready with b (deadline, limit, ...).
builder_ready(t, b) ==
    /\ tasks[t].pc = "select"
    /\ tasks[t].builder = "running"
    /\ tasks' = [tasks EXCEPT ![t].builder = "ready", ![t].bval = b]
    /\ UNCHANGED mempool_next
    /\ NoLock
    /\ TaskFrame

\* ---------------------------------------------------------------- spec
Next ==
    \/ \E id \in ProposalIds : generate_block_proposal(id)
    \/ set_active_proposal
    \/ spawn_build_proposal_loop
    \/ await_active_proposal
    \/ await_active_proposal_join
    \/ \E t \in TaskIds : get_txs_request(t)
    \/ \E t \in TaskIds : get_txs_response(t)
    \/ \E t \in TaskIds : get_txs_error(t)
    \/ \E t \in TaskIds : \E k \in 0..MaxTxsPerMempoolRequest : mempool_reply(t, k)
    \/ \E t \in TaskIds : \E e \in MempoolErrors : mempool_fail(t, e)
    \/ \E t \in TaskIds : send_tx(t)
    \/ \E t \in TaskIds : send_tx_closed(t)
    \/ \E t \in TaskIds : builder_done(t)
    \/ \E t \in TaskIds : active_proposal_finished(t)
    \/ \E t \in TaskIds : task_end(t)
    \/ \E t \in TaskIds : builder_read(t)
    \/ \E t \in TaskIds : builder_close_stream(t)
    \/ \E t \in TaskIds : \E b \in BOOLEAN : builder_ready(t, b)

Spec == Init /\ [][Next]_vars

\* The critical sections under the lock and the spawning part of
\* generate_block_proposal contain no suspension point: the runtime runs
\* them to their end.  Nothing is assumed of the mempool, of the builder or
\* of select!.
FairCleanup ==
    /\ Spec
    /\ WF_vars(set_active_proposal)
    /\ WF_vars(spawn_build_proposal_loop)
    /\ WF_vars(\E t \in TaskIds : active_proposal_finished(t))

\* select! starts its poll at a branch picked at random, so a builder branch
\* that stays ready is not passed over for ever.
FairSelect ==
    /\ FairCleanup
    /\ WF_vars(\E t \in TaskIds : builder_done(t))

\* ------------------------------------------- a clear of an empty slot
\* active_proposal_finished is an associated function of the slot alone; the
\* program calls it once per task, with the task's claim in the slot.  Here it
\* is called once more by somebody else (Other), at a moment when the slot is
\* empty and the lock is free: lock().await returns the guard at once.
Other == 0 - 1
active_proposal_finished_empty_lock ==
    /\ active_proposal = None
    /\ lock = None
    /\ LockAcquire(Other)
    /\ UNCHANGED <<active_proposal, active_proposal_handle, tasks, caller_pc,
                   caller_arg, call_result, mempool_next, factory_calls,
                   channels_created>>

\* Variant: the clear takes the claim out of the slot and fails when there is
\* none.
active_proposal_finished_empty_expects_claim ==
    /\ lock = Some(Other)
    /\ active_proposal' = None
    /\ call_result' = IF active_proposal = None THEN InternalError ELSE call_result
    /\ LockRelease
    /\ UNCHANGED <<active_proposal_handle, tasks, caller_pc, caller_arg,
                   mempool_next, factory_calls, channels_created>>

\* *proposal_id = None; the guard is dropped.
active_proposal_finished_empty ==
    /\ lock = Some(Other)
    /\ active_proposal' = None
    /\ LockRelease
    /\ UNCHANGED <<active_proposal_handle, tasks, caller_pc, caller_arg,
                   call_result, mempool_next, factory_calls, channels_created>>

NextWithClear ==
    \/ Next
    \/ active_proposal_finished_empty_lock
    \/ active_proposal_finished_empty

SpecWithClear == Init /\ [][NextWithClear]_vars

\* ------------------------------------------------------------ properties
IsPrefix(s, r) == Len(s) <= Len(r) /\ \A i \in 1..Len(s) : s[i] = r[i]
Latest(t) == t = Len(tasks)
InLoop(t) == tasks[t].pc = "select"
\* Task t still holds the claim made for it.
HoldsClaim(t) == tasks[t].claim # 0
\* The caller leaves the check-and-set in this step.
CheckStep == caller_pc = "lock" /\ lock = Some(0) /\ caller_pc' # "lock"
\* The caller leaves generate_block_proposal's spawning part in this step.
SpawnStep == caller_pc = "spawn" /\ caller_pc' # "spawn"

\* C1 -- Mutual exclusion: at most one claim is outstanding at any time (held
\* by a task that has not cleared the slot yet, or by a call between its
\* check-and-set and its spawn), and a check-and-set that finds the slot
\* holding cur fails with AlreadyGeneratingProposal{cur, new} for every new
\* id, new = cur included.
OneClaimOutstanding ==
    Cardinality({t \in TaskIds : HoldsClaim(t)})
        + (IF caller_pc = "spawn" THEN 1 ELSE 0) <= 1
C1_MutualExclusion ==
    /\ []OneClaimOutstanding
    /\ [][(CheckStep /\ active_proposal # None) =>
            /\ call_result' = AlreadyGeneratingProposal(active_proposal[1], caller_arg)
            /\ caller_pc' = "idle"]_vars
C1_Witness ==
    /\ call_result = AlreadyGeneratingProposal(1, 1)
    /\ \E t \in TaskIds : tasks[t].claim = 1

\* C2 -- Cleanup: once a task has ended, whatever its outcome, the slot no
\* longer holds its claim: it is empty unless a later claim has been accepted
\* since; and a check-and-set made after the task ended succeeds, for any id.
C2_Cleanup ==
    /\ [](\A t \in TaskIds :
             (tasks[t].pc = "done" /\ Latest(t) /\ caller_pc # "spawn")
                 => active_proposal = None)
    /\ [][(CheckStep /\ tasks # <<>> /\ tasks[Len(tasks)].pc = "done") =>
            /\ active_proposal' = Some(caller_arg)
            /\ caller_pc' = "spawn"]_vars
C2_Witness ==
    /\ Len(tasks) = 1
    /\ tasks[1].pc = "done"
    /\ tasks[1].res.kind = "InternalError"
    /\ active_proposal = None
    /\ caller_pc = "lock"
    /\ lock = Some(0)

\* C3 -- A rejected claim changes nothing: the rejecting step leaves the slot,
\* the retained handle, every task (its relay channel included) and the
\* counts of created channels and factory calls as they were and returns to
\* the caller; and a task, a channel or a builder only ever comes into being
\* in the spawning step of an accepted call, so a rejected request never
\* starts later.
C3_RejectedClaimChangesNothing ==
    /\ [][(CheckStep /\ active_proposal # None) =>
            /\ UNCHANGED <<active_proposal, active_proposal_handle, tasks,
                           channels_created, factory_calls>>
            /\ caller_pc' = "idle"
            /\ call_result'.kind = "AlreadyGeneratingProposal"]_vars
    /\ [][(Len(tasks') # Len(tasks) \/ channels_created' # channels_created
                \/ factory_calls' # factory_calls) =>
            /\ SpawnStep
            /\ active_proposal = Some(caller_arg)
            /\ call_result' = OkUnit
            /\ Len(tasks') = Len(tasks) + 1
            /\ channels_created' = channels_created + 1
            /\ factory_calls' = factory_calls + 1]_vars
C3_Witness ==
    /\ call_result.kind = "AlreadyGeneratingProposal"
    /\ caller_pc = "idle"
    /\ Len(tasks) = 1
    /\ InLoop(1)
    /\ tasks[1].chan # <<>>
    /\ active_proposal_handle = Some(1)

\* C4 -- generate_block_proposal does not wait for the proposal: the spawning
\* step of an accepted call needs nothing from the task, returns Ok(()) with
\* the slot holding the claimed id and the new task at the start of its loop
\* (builder running, no mempool answer), and it is reached although nothing
\* is assumed of the builder or the mempool.
SpawnedTask == tasks'[Len(tasks')]
C4_ReturnsOnceSpawned ==
    /\ [][SpawnStep =>
            /\ call_result' = OkUnit
            /\ caller_pc' = "idle"
            /\ active_proposal' = Some(caller_arg)
            /\ Len(tasks') = Len(tasks) + 1
            /\ active_proposal_handle' = Some(Len(tasks'))
            /\ SpawnedTask = NewTask(caller_arg)]_vars
    /\ [](caller_pc = "spawn" => ENABLED spawn_build_proposal_loop)
    /\ (caller_pc = "spawn") ~> (caller_pc = "idle" /\ call_result = OkUnit)
C4_Witness ==
    /\ caller_pc = "idle"
    /\ call_result = OkUnit
    /\ Len(tasks) = 1
    /\ active_proposal = Some(tasks[1].claim)
    /\ tasks[1].builder = "running"
    /\ tasks[1].feed = "get_txs"
    /\ tasks[1].reply = NoReply

\* C5 -- Error propagation: generate_block_proposal only ever returns Ok(())
\* or AlreadyGeneratingProposal; a task's result is only ever Ok(bool),
\* MempoolError or InternalError, and such a value reaches the caller only
\* as the result of awaiting the handle of a task that has ended.
SyncKinds == {"Ok(())", "AlreadyGeneratingProposal"}
TaskKinds == {"Ok(bool)", "MempoolError", "InternalError"}
C5_ErrorPropagation ==
    /\ [][(caller_pc \in {"lock", "spawn"} /\ call_result' # call_result)
            => call_result'.kind \in SyncKinds]_vars
    /\ [](\A t \in TaskIds : tasks[t].res.kind \in TaskKinds \cup {"Pending"})
    /\ [][(call_result' # call_result /\ call_result'.kind \notin SyncKinds \cup {"Pending", "None"}) =>
            /\ caller_pc = "join"
            /\ tasks[caller_arg].pc = "done"
            /\ call_result' = tasks[caller_arg].res
            /\ call_result'.kind \in TaskKinds]_vars
C5_Witness ==
    /\ call_result = MempoolError("ClientError")
    /\ caller_pc = "idle"
    /\ active_proposal_handle = None

\* C6 -- Order preservation: what the builder has read, followed by what the
\* relay channel holds, followed by the unsent rest of the current batch, is
\* exactly the concatenation of the batches get_txs returned so far; the
\* builder's reads are therefore a prefix of it, and no transaction occurs
\* twice.
NoDuplicates(s) == \A i, j \in 1..Len(s) : i < j => s[i] # s[j]
C6_OrderPreservation ==
    \A t \in TaskIds :
        /\ InLoop(t) => tasks[t].read \o tasks[t].chan \o tasks[t].batch = tasks[t].pulled
        /\ IsPrefix(tasks[t].read \o tasks[t].chan, tasks[t].pulled)
        /\ NoDuplicates(tasks[t].pulled)
C6_Witness ==
    \E t \in TaskIds :
        /\ tasks[t].read = <<1, 2, 3>>
        /\ tasks[t].pulled = <<1, 2, 3, 4>>
        /\ tasks[t].chan = <<4>>

\* C7 -- Backpressure: the relay channel never holds more than
\* max_txs_per_mempool_request transactions; a send on an open channel can
\* proceed exactly when the channel is not full, and while it is full the
\* batch stays as it is until the builder reads (or the loop is left); a
\* get_txs is issued only by a new feed step, with no batch unsent; so the
\* transactions taken from the mempool and not yet read never exceed the
\* capacity plus one batch.
Unread(t) == Len(tasks[t].chan) + Len(tasks[t].batch) + Len(tasks[t].reply.txs)
C7_Backpressure ==
    /\ [](\A t \in TaskIds :
            /\ Len(tasks[t].chan) <= MaxTxsPerMempoolRequest
            /\ Len(tasks[t].batch) <= MaxTxsPerMempoolRequest
            /\ Unread(t) <= MaxTxsPerMempoolRequest + MaxTxsPerMempoolRequest
            /\ InLoop(t) => Len(tasks[t].pulled) - Len(tasks[t].read)
                                = Len(tasks[t].chan) + Len(tasks[t].batch)
            /\ (InLoop(t) /\ tasks[t].feed = "send" /\ ~tasks[t].rx_closed) =>
                   (ENABLED send_tx(t) <=> Len(tasks[t].chan) < MaxTxsPerMempoolRequest))
    /\ [][\A t \in TaskIds :
            (InLoop(t) /\ tasks[t].feed = "send"
                /\ Len(tasks[t].chan) = MaxTxsPerMempoolRequest) =>
                    (tasks'[t].batch = tasks[t].batch \/ tasks'[t].pc # "select")]_vars
    /\ [][\A t \in TaskIds :
            (tasks'[t].feed = "get_txs" /\ tasks[t].feed # "get_txs") =>
                (tasks[t].feed = "new" /\ tasks[t].batch = <<>>)]_vars
C7_Witness ==
    \E t \in TaskIds :
        /\ InLoop(t)
        /\ tasks[t].feed = "send"
        /\ tasks[t].read = <<>>
        /\ Len(tasks[t].chan) = MaxTxsPerMempoolRequest
        /\ Len(tasks[t].batch) = MaxTxsPerMempoolRequest

\* After the loop has been left no feed step runs: no get_txs is in flight
\* or answered, nothing is sent, nothing is read.
NoFeedAfterExit ==
    \A t \in TaskIds :
        ~InLoop(t) =>
            /\ tasks'[t].feed = "dropped"
            /\ tasks'[t].reply = NoReply
            /\ tasks'[t].batch = <<>>
            /\ Len(tasks'[t].chan) <= Len(tasks[t].chan)
            /\ Len(tasks'[t].read) <= Len(tasks[t].read)
            /\ Len(tasks'[t].pulled) <= Len(tasks[t].pulled)
\* The slot does not stay with a task that has cleared it.
ClearedAfter(kind) ==
    \A t \in TaskIds :
        (tasks[t].res.kind = kind /\ tasks[t].pc \in {"return", "done"}
            /\ Latest(t) /\ caller_pc # "spawn") => active_proposal = None

\* C8 -- Mempool failure: the step in which get_txs returns an error to the
\* feed step ends the loop with Err(MempoolError) carrying that very error,
\* sends nothing; afterwards no get_txs and no send happens for that task;
\* and the task goes on to clear the slot, so that the slot is empty once it
\* has (unless a later claim was accepted).
C8_MempoolFailure ==
    /\ [][\A t \in TaskIds :
            (InLoop(t) /\ tasks[t].reply.kind = "Err"
                /\ tasks'[t].reply # tasks[t].reply /\ tasks'[t].builder # "done") =>
                    /\ tasks'[t].res = MempoolError(tasks[t].reply.err)
                    /\ tasks'[t].pc = "finishing"
                    /\ tasks'[t].chan = tasks[t].chan]_vars
    /\ [][NoFeedAfterExit]_vars
    /\ []ClearedAfter("MempoolError")
    /\ (\E t \in TaskIds : tasks[t].res.kind = "MempoolError" /\ HoldsClaim(t))
          ~> (active_proposal = None)
C8_Witness ==
    \E t \in TaskIds :
        /\ tasks[t].pc = "finishing"
        /\ tasks[t].res = MempoolError("ClientError")
        /\ tasks[t].pulled # <<>>
        /\ active_proposal = Some(tasks[t].claim)

\* C9 -- Relay failure: the step in which a send finds the channel closed by
\* the builder ends the loop with Err(InternalError) and leaves the channel
\* as it was; nothing is ever added to a closed channel, so the rest of the
\* batch is not sent; and the slot is cleared as for a mempool failure.
C9_RelayFailure ==
    /\ [][\A t \in TaskIds :
            (InLoop(t) /\ tasks[t].feed = "send" /\ tasks[t].rx_closed
                /\ tasks'[t].feed # "send" /\ tasks'[t].builder # "done") =>
                    /\ tasks'[t].res = InternalError
                    /\ tasks'[t].pc = "finishing"
                    /\ tasks'[t].chan = tasks[t].chan]_vars
    /\ [][\A t \in TaskIds :
            tasks[t].rx_closed => Len(tasks'[t].chan) <= Len(tasks[t].chan)]_vars
    /\ [](\A t \in TaskIds : tasks[t].res.kind = "InternalError" => ~InLoop(t))
    /\ []ClearedAfter("InternalError")
    /\ (\E t \in TaskIds : tasks[t].res.kind = "InternalError" /\ HoldsClaim(t))
          ~> (active_proposal = None)
C9_Witness ==
    \E t \in TaskIds :
        /\ tasks[t].pc = "finishing"
        /\ tasks[t].res = InternalError
        /\ Len(tasks[t].pulled) > Len(tasks[t].read) + Len(tasks[t].chan) + 1

\* C10 as stated -- once the builder's computation is ready with b, the only
\* thing the task does is leave the loop with Ok(b): no feed step is started
\* or completed any more.
C10_Original ==
    [][\A t \in TaskIds :
        (InLoop(t) /\ tasks[t].builder = "ready" /\ tasks'[t] # tasks[t]) =>
            /\ tasks'[t].res = OkBool(tasks[t].bval)
            /\ tasks'[t].pc = "finishing"]_vars

\* C10 -- Builder completion: when select! takes the builder branch, the loop
\* is left in that step with Ok(b) for the b the builder became ready with,
\* the unfinished feed step is dropped with its unsent batch and is not
\* awaited, and no feed step runs afterwards; the branch can be taken
\* whenever the builder is ready, whatever the feed step is doing.  select!
\* gives it no priority, though: until it is taken a feed step may still be
\* started or completed, and a feed error may end the loop instead.
C10_BuilderCompletion ==
    /\ [][\A t \in TaskIds :
            (InLoop(t) /\ tasks'[t].builder = "done") =>
                /\ tasks[t].builder = "ready"
                /\ tasks'[t].res = OkBool(tasks[t].bval)
                /\ tasks'[t].pc = "finishing"
                /\ tasks'[t].feed = "dropped"
                /\ tasks'[t].batch = <<>>
                /\ tasks'[t].reply = NoReply
                /\ tasks'[t].chan = tasks[t].chan]_vars
    /\ [](\A t \in TaskIds :
            (InLoop(t) /\ tasks[t].builder = "ready") => ENABLED builder_done(t))
    /\ [][NoFeedAfterExit]_vars
    /\ [](\A t \in TaskIds : tasks[t].res.kind = "Ok(bool)" => tasks[t].builder \in {"done", "dropped"})
C10_Witness ==
    \E t \in TaskIds :
        /\ tasks[t].pc = "finishing"
        /\ tasks[t].res = OkBool(TRUE)
        /\ Len(tasks[t].pulled) > Len(tasks[t].read) + Len(tasks[t].chan)

\* C11 -- Termination of the race: with a select! that does not pass the
\* builder branch over for ever, once the builder's computation is ready the
\* loop is left and the slot becomes empty, whatever the mempool does: also
\* when it answers every get_txs at once with a (possibly empty) batch, and
\* also when it never answers.
BuilderReadyInLoop == \E t \in TaskIds : InLoop(t) /\ tasks[t].builder = "ready"
C11_RaceTerminates ==
    /\ BuilderReadyInLoop ~> (\A t \in TaskIds : ~InLoop(t))
    /\ BuilderReadyInLoop ~> (active_proposal = None)
C11_Witness ==
    \E t \in TaskIds :
        /\ InLoop(t)
        /\ tasks[t].builder = "ready"
        /\ mempool_next = MaxMempool
        /\ tasks[t].feed = "get_txs"
        /\ tasks[t].reply = TxsReply(<<>>)

\* C12 -- Cleanup before the result: a task's result is set once, when the
\* loop is left, and does not change afterwards; a task that is about to
\* return or has ended has cleared its claim; and in the step in which
\* await_active_proposal returns Some(result) the awaited task has ended with
\* exactly that result and the slot is empty, for Ok and for either error.
JoinStep == caller_pc = "join" /\ caller_pc' # "join"
C12_ClearedBeforeResult ==
    /\ [][\A t \in TaskIds :
            tasks[t].res # Pending => tasks'[t].res \in {tasks[t].res, Pending}]_vars
    /\ [](\A t \in TaskIds :
            /\ InLoop(t) => tasks[t].res = Pending
            /\ tasks[t].pc \in {"return", "done"} => ~HoldsClaim(t)
            /\ (tasks[t].pc \in {"finishing", "return", "done"} /\ Attached(t))
                   => tasks[t].res.kind \in TaskKinds)
    /\ [][JoinStep =>
            /\ tasks[caller_arg].pc = "done"
            /\ call_result' = tasks[caller_arg].res
            /\ call_result'.kind \in TaskKinds
            /\ active_proposal = None
            /\ active_proposal' = None]_vars
C12_Witness ==
    /\ call_result = InternalError
    /\ caller_pc = "idle"
    /\ Len(tasks) = 1
    /\ tasks[1] = Ended
    /\ active_proposal = None

\* C13 -- No cancellation, no timeout: the slot goes from Generating(id) to
\* empty only in the cleanup step of the task spawned for id, and a task
\* leaves its loop only because the builder completed, get_txs failed or a
\* send failed.  While the task is in its loop the slot holds its id and every
\* check-and-set is rejected; and from any point after which no task in its
\* loop has a completed builder, a failed get_txs or a closed channel, a
\* claimed slot stays claimed forever.
LoopExitCause(t) ==
    \/ tasks[t].builder = "ready" /\ tasks'[t].res = OkBool(tasks[t].bval)
    \/ /\ tasks[t].feed = "get_txs" /\ tasks[t].reply.kind = "Err"
       /\ tasks'[t].res = MempoolError(tasks[t].reply.err)
    \/ /\ tasks[t].feed = "send" /\ tasks[t].rx_closed
       /\ tasks'[t].res = InternalError
NoExitCause ==
    \A t \in TaskIds :
        InLoop(t) => /\ tasks[t].builder # "ready"
                     /\ tasks[t].reply.kind # "Err"
                     /\ ~tasks[t].rx_closed
BeingBuilt ==
    /\ active_proposal # None
    /\ caller_pc = "spawn" \/ \E t \in TaskIds : InLoop(t)
C13_NoCancellation ==
    /\ [][active_proposal' # active_proposal =>
            \/ active_proposal = None /\ CheckStep
            \/ /\ active_proposal' = None
               /\ \E t \in TaskIds :
                     /\ tasks[t].pc = "finishing"
                     /\ lock = Some(t)
                     /\ active_proposal = Some(tasks[t].claim)
                     /\ tasks'[t].pc = "return"]_vars
    /\ [][\A t \in TaskIds :
            (InLoop(t) /\ tasks'[t].pc # "select") =>
                tasks'[t].pc = "finishing" /\ LoopExitCause(t)]_vars
    /\ [](\A t \in TaskIds : InLoop(t) => active_proposal = Some(tasks[t].claim))
    /\ [][(CheckStep /\ \E t \in TaskIds : InLoop(t)) =>
            /\ call_result'.kind = "AlreadyGeneratingProposal"
            /\ active_proposal' = active_proposal
            /\ tasks' = tasks]_vars
    /\ []((BeingBuilt /\ []NoExitCause) => []BeingBuilt)
C13_Witness ==
    /\ Len(tasks) = 1
    /\ InLoop(1)
    /\ tasks[1].builder = "running"
    /\ tasks[1].chan = <<>>
    /\ tasks[1].reply = TxsReply(<<>>)
    /\ mempool_next = MaxMempool
    /\ active_proposal = Some(1)
    /\ call_result = AlreadyGeneratingProposal(1, 2)
    /\ caller_pc = "idle"

\* C14 as stated -- the slot is non-empty exactly while a spawned task that has
\* not ended exists.
C14_Original ==
    (active_proposal # None) <=> (\E t \in TaskIds : tasks[t].pc # "done")
\* C14 -- The slot follows the claim, not the task's lifetime: it holds id
\* exactly while either the call that claimed id is between its check-and-set
\* and its spawn, or a task spawned for id has not yet executed its clear.  A
\* task that has cleared but not yet ended leaves the slot empty or holding a
\* later claim.
ClaimHeldFor(id) ==
    \/ caller_pc = "spawn" /\ caller_arg = id
    \/ \E t \in TaskIds : tasks[t].pc \in {"select", "finishing"} /\ tasks[t].claim = id
C14_SlotFollowsClaim ==
    /\ \A id \in ProposalIds : (active_proposal = Some(id)) <=> ClaimHeldFor(id)
    /\ (active_proposal = None) <=> (\A id \in ProposalIds : ~ClaimHeldFor(id))
C14_Witness ==
    /\ Len(tasks) = 2
    /\ tasks[1].pc = "return"
    /\ InLoop(2)
    /\ active_proposal = Some(2)
    /\ caller_pc = "idle"

\* C15 -- Nothing after the exit: the step that leaves the loop sends nothing
\* and pulls nothing, and drops the feed step with the reply and the batch it
\* holds; from then on the task never has a get_txs in flight, a reply or a
\* batch, its channel and the builder's input never grow; the mempool is
\* pulled only by a task in its loop with a get_txs in flight, and what was
\* pulled is never given back to it.
LeavesLoop(t) == InLoop(t) /\ tasks'[t].pc # "select"
C15_DroppedAfterExit ==
    /\ [][\A t \in TaskIds :
            LeavesLoop(t) =>
                /\ tasks'[t].feed = "dropped"
                /\ tasks'[t].reply = NoReply
                /\ tasks'[t].batch = <<>>
                /\ tasks'[t].chan = tasks[t].chan
                /\ tasks'[t].read = tasks[t].read
                /\ mempool_next' = mempool_next]_vars
    /\ [](\A t \in TaskIds :
            ~InLoop(t) => /\ tasks[t].feed = "dropped"
                          /\ tasks[t].reply = NoReply
                          /\ tasks[t].batch = <<>>)
    /\ [][\A t \in TaskIds :
            ~InLoop(t) => /\ IsPrefix(tasks'[t].chan, tasks[t].chan)
                          /\ IsPrefix(tasks'[t].read, tasks[t].read)]_vars
    /\ [][mempool_next' >= mempool_next]_vars
    /\ [][mempool_next' # mempool_next =>
            \E t \in TaskIds :
                /\ InLoop(t) /\ tasks[t].feed = "get_txs" /\ tasks[t].reply = NoReply
                /\ InLoop(t)' /\ tasks'[t].reply.kind = "Ok"]_vars
C15_Witness ==
    \E t \in TaskIds :
        /\ tasks[t].pc = "finishing"
        /\ tasks[t].res = OkBool(FALSE)
        /\ Len(tasks[t].pulled) > Len(tasks[t].read) + Len(tasks[t].chan)
        /\ mempool_next < MaxMempool
        /\ mempool_next > Len(tasks[t].pulled)

\* C16 -- Short critical sections: the lock is held by the caller only in its
\* check-and-set and by a task only in its clear, never by a task in its loop
\* (get_txs, send, builder poll) nor by a caller that is spawning, joining or
\* idle; whoever waits for the lock is a claim or a clear and is different
\* from the holder; the holder can always take its step; so every waiting or
\* holding claim and clear gets the lock and finishes.
InSeq(x, s) == \E i \in 1..Len(s) : s[i] = x
LockHeldOnlyInCriticalSection ==
    /\ lock = Some(0) => caller_pc = "lock"
    /\ \A t \in TaskIds : lock = Some(t) => tasks[t].pc = "finishing"
    /\ lock # None => lock[1] \in {0} \cup TaskIds
    /\ lock # None => ~InSeq(lock[1], lock_waiters)
    /\ lock_waiters # <<>> => lock # None
    /\ \A i \in 1..Len(lock_waiters) :
            /\ lock_waiters[i] = 0 => caller_pc = "lock"
            /\ lock_waiters[i] # 0 => /\ lock_waiters[i] \in TaskIds
                                      /\ tasks[lock_waiters[i]].pc = "finishing"
            /\ \A j \in 1..Len(lock_waiters) : lock_waiters[i] = lock_waiters[j] => i = j
    /\ caller_pc = "lock" => (lock = Some(0) \/ InSeq(0, lock_waiters))
    /\ \A t \in TaskIds :
            tasks[t].pc = "finishing" => (lock = Some(t) \/ InSeq(t, lock_waiters))
C16_LockNeverBlocks ==
    /\ []LockHeldOnlyInCriticalSection
    /\ [](lock = Some(0) => ENABLED set_active_proposal)
    /\ [](\A t \in TaskIds : lock = Some(t) => ENABLED active_proposal_finished(t))
    /\ InSeq(0, lock_waiters) ~> (lock = Some(0))
    /\ (\E t \in TaskIds : InSeq(t, lock_waiters)) ~> (\E t \in TaskIds : lock = Some(t))
    /\ (lock # None) ~> (lock = None)
C16_Witness ==
    \E t \in TaskIds :
        /\ lock = Some(0)
        /\ lock_waiters = <<t>>
        /\ tasks[t].pc = "finishing"
        /\ caller_pc = "lock"

\* C17 -- Idempotent cleanup: a clear that finds the slot empty leaves it
\* empty, raises nothing and changes nothing but the lock, which it gives
\* back, so that the state after it is the state before it was called, however
\* often it is repeated and also after a task has already cleared; the
\* clear can always run; and the check-and-set that follows it finds the slot
\* empty and is accepted as from Idle, with one claim outstanding as ever.
OtherLockStep == lock # Some(Other) /\ lock' = Some(Other)
OtherClearStep == lock = Some(Other) /\ lock' # Some(Other)
AllButLock ==
    <<active_proposal, active_proposal_handle, tasks, caller_pc, caller_arg,
      call_result, mempool_next, factory_calls, channels_created>>
C17_IdempotentCleanup ==
    /\ [][OtherLockStep => UNCHANGED AllButLock /\ active_proposal = None]_vars
    /\ [][OtherClearStep =>
            /\ active_proposal = None
            /\ active_proposal' = None
            /\ UNCHANGED AllButLock
            /\ lock_waiters = <<>> => (lock' = None /\ lock_waiters' = <<>>)
            /\ lock_waiters # <<>> =>
                   (lock' = Some(Head(lock_waiters)) /\ lock_waiters' = Tail(lock_waiters))]_vars
    /\ [](lock = Some(Other) => ENABLED active_proposal_finished_empty)
    /\ [][(CheckStep /\ active_proposal = None) =>
            /\ caller_pc' = "spawn"
            /\ active_proposal' = Some(caller_arg)
            /\ call_result' = call_result]_vars
    /\ []OneClaimOutstanding
    /\ [](\A id \in ProposalIds : (active_proposal = Some(id)) <=> ClaimHeldFor(id))
C17_Witness ==
    /\ lock = Some(Other)
    /\ lock_waiters = <<0>>
    /\ active_proposal = None
    /\ Len(tasks) = 1
    /\ tasks[1].pc \in {"return", "done"}
    /\ caller_pc = "lock"
    /\ caller_arg = 2

\* C18 -- The clear finds the task's own claim: in the step in which a task
\* executes active_proposal_finished the slot holds the id the task was
\* spawned for, neither nothing nor another id, and the step empties it; until
\* that step the task is the latest task, nobody else is between a
\* check-and-set and a spawn, and no other task holds a claim.
ClearStep(t) == tasks[t].pc = "finishing" /\ tasks'[t].pc # "finishing"
C18_ClearsOwnClaim ==
    /\ [][\A t \in TaskIds :
            ClearStep(t) =>
                /\ tasks[t].claim \in ProposalIds
                /\ active_proposal = Some(tasks[t].claim)
                /\ active_proposal' = None
                /\ lock = Some(t)]_vars
    /\ [](\A t \in TaskIds :
            tasks[t].pc \in {"select", "finishing"} =>
                /\ Latest(t)
                /\ caller_pc # "spawn"
                /\ active_proposal = Some(tasks[t].claim)
                /\ \A u \in TaskIds \ {t} : ~HoldsClaim(u))
C18_Witness ==
    /\ Len(tasks) = 2
    /\ tasks[1].pc = "return"
    /\ tasks[2].pc = "return"
    /\ active_proposal = None
    /\ lock = None
    /\ caller_pc = "idle"

\* C19 -- One loop at a time: at most one task is in its feed/race loop, at
\* most one get_txs is in flight, at most one builder is being polled and
\* only the channel of the task in the loop receives transactions; the spawn
\* replaces the retained handle, whatever it was, without waiting for the
\* task behind it, and yet happens only when every earlier task has left its
\* loop and cleared.
Looping == {t \in TaskIds : InLoop(t)}
C19_OneLoopAtATime ==
    /\ [](Cardinality(Looping) <= 1)
    /\ [](Cardinality({t \in TaskIds : tasks[t].feed \in {"get_txs", "send"}}) <= 1)
    /\ [](Cardinality({t \in TaskIds : tasks[t].builder \in {"running", "ready"}}) <= 1)
    /\ [](\A t \in TaskIds :
            (tasks[t].feed # "dropped" \/ tasks[t].builder \in {"running", "ready"})
                => InLoop(t))
    /\ [][SpawnStep =>
            /\ Looping = {}
            /\ \A t \in TaskIds : tasks[t].pc \in {"return", "done"}
            /\ Looping' = {Len(tasks) + 1}
            /\ active_proposal_handle' = Some(Len(tasks) + 1)]_vars
    /\ [][\A t \in TaskIds :
            Len(tasks'[t].chan) > Len(tasks[t].chan) => Looping = {t}]_vars
    /\ [][mempool_next' # mempool_next => Cardinality(Looping) = 1]_vars
C19_Witness ==
    /\ Len(tasks) = 2
    /\ tasks[1].pc = "return"
    /\ tasks[2].pc = "select"
    /\ tasks[2].feed = "get_txs"
    /\ tasks[2].builder = "running"
    /\ active_proposal_handle = Some(2)

\* C20 -- No end of input: a task in its loop, the only place where the
\* builder's computation is polled, still owns the sender, so the builder's
\* stream never reports a closed and drained channel while the builder is
\* running or ready; an empty batch from the mempool only starts the next feed
\* step; and a loop whose mempool did not fail and whose channel the builder
\* did not close is left only with the builder ready, with Ok of its value.
EndOfInput(t) == tasks[t].sender_dropped /\ tasks[t].chan = <<>>
C20_NoEndOfInput ==
    /\ [](\A t \in TaskIds :
            /\ InLoop(t) => (~tasks[t].sender_dropped
                              /\ tasks[t].builder \in {"running", "ready"})
            /\ tasks[t].builder \in {"running", "ready"} => (InLoop(t) /\ ~EndOfInput(t)))
    /\ [][\A t \in TaskIds :
            ~tasks[t].sender_dropped /\ tasks'[t].sender_dropped => ~InLoop(t)']_vars
    /\ [][\A t \in TaskIds :
            (InLoop(t) /\ tasks[t].reply = TxsReply(<<>>) /\ tasks'[t].reply # tasks[t].reply) =>
                \/ InLoop(t)' /\ tasks'[t].feed = "new" /\ tasks'[t].chan = tasks[t].chan
                \/ LeavesLoop(t) /\ tasks[t].builder = "ready"]_vars
    /\ [][\A t \in TaskIds :
            (LeavesLoop(t) /\ tasks[t].reply.kind # "Err" /\ ~tasks[t].rx_closed) =>
                /\ tasks[t].builder = "ready"
                /\ tasks'[t].res = OkBool(tasks[t].bval)]_vars
C20_Witness ==
    /\ Len(tasks) = 1
    /\ tasks[1].pc = "finishing"
    /\ tasks[1].res = OkBool(TRUE)
    /\ tasks[1].pulled = <<>>
    /\ tasks[1].chan = <<>>
    /\ ~tasks[1].rx_closed
    /\ mempool_next = 0

====
